---- MODULE Spec2Model ----
(***************************************************************************)
(* A model of tokens_watcher (src/main.rs): the Token deviation/threshold  *)
(* logic, the Reporter aggregation (report, check), the command handler    *)
(* and the cancellable periodic watch loop.                                *)
(*                                                                         *)
(* Numbers.  An f32 is a record [k, v]: k = "num" holds the value v/100    *)
(* (fixed point, two decimals), k = "nan" / "inf" / "ninf" are the IEEE    *)
(* specials, which f32::from_str and the OneInch division can produce.     *)
(* Prices are therefore counted in hundredths of a currency unit and       *)
(* percentages in hundredths of a percent.  Arithmetic on "num" is exact:  *)
(* binary rounding error of f32 is not modelled.                           *)
(*                                                                         *)
(* Text.  A String is a sequence of atoms (TLA+ strings); push_str and     *)
(* format! are concatenation, "" is << >>, a newline is the atom NL.       *)
(***************************************************************************)
EXTENDS Integers, Sequences, FiniteSets, TLC

VARIABLES
    tokens,      \* Reporter.tokens
    tok,         \* TokenSpec: the Token under test
    call,        \* TokenSpec: the last Token method call and its result
    wpc,         \* watch: position of the loop
    timerReady,  \* watch: interval.tick() would complete now
    chan,        \* the oneshot channel of the cancellation message
    ci,          \* Reporter.check: index of the next token of the for loop
    md,          \* Reporter.check: the local md
    evals,       \* Reporter.check: per token, the feed outcome and check result
    txt,         \* watch: the text returned by self.check()
    sends,       \* watch: send_message attempts made for the current tick
    lastSend,    \* watch: outcome of the latest send_message
    lateTick,    \* watch: a tick branch was serviced with the signal already sent
    cpc,         \* cmd: position of the command handler
    ri,          \* Reporter.report: index of the next token of the for loop
    ret,         \* Reporter.report: the local ret
    revals,      \* Reporter.report: per token, the feed outcome
    rres,        \* cmd: the Result returned by self.report()
    answer       \* cmd: the text handed to cx.answer

vars == <<tokens, tok, call, wpc, timerReady, chan, ci, md, evals, txt, sends,
          lastSend, lateTick, cpc, ri, ret, revals, rres, answer>>

tokVars == <<tok, call>>
watchVars == <<wpc, timerReady, chan, ci, md, evals, txt, sends, lastSend,
               lateTick>>
cmdVars == <<cpc, ri, ret, revals, rres, answer>>

----------------------------------------------------------------------------
(* Bounds *)

MaxPrice == 6

MaxBuy == 4

MaxTokens == 2

----------------------------------------------------------------------------
(* f32 *)

Num(n) == [k |-> "num", v |-> n]

NaN == [k |-> "nan", v |-> 0]

PosInf == [k |-> "inf", v |-> 0]

NegInf == [k |-> "ninf", v |-> 0]

Zero == Num(0)

Rank(a) == CASE a.k = "ninf" -> -1 [] a.k = "inf" -> 1 [] OTHER -> 0

\* a > b on f32: false as soon as one side is NaN
FGt(a, b) ==
    /\ a.k # "nan"
    /\ b.k # "nan"
    /\ \/ Rank(a) > Rank(b)
       \/ Rank(a) = 0 /\ Rank(b) = 0 /\ a.v > b.v

FLt(a, b) == FGt(b, a)

\* a <= b on f32: false as soon as one side is NaN
FLe(a, b) == a.k # "nan" /\ b.k # "nan" /\ ~FGt(a, b)

\* unary minus
FNeg(a) ==
    CASE a.k = "num" -> Num(-a.v)
      [] a.k = "inf" -> NegInf
      [] a.k = "ninf" -> PosInf
      [] OTHER -> NaN

\* n / d rounded to the nearest integer, halves away from zero (f32::round)
RoundDiv(n, d) ==
    IF n >= 0 THEN (2 * n + d) \div (2 * d) ELSE -((2 * (-n) + d) \div (2 * d))

\* (current_price - buy_price) / buy_price * 100.0, then (pct * 100.0).round() / 100.0,
\* for a finite buy_price > 0
PctOf(current_price, buy_price) ==
    CASE current_price.k = "num" ->
             Num(RoundDiv((current_price.v - buy_price.v) * 10000, buy_price.v))
      [] OTHER -> current_price

\* Display of an f32, as format!("{}", x) prints it: no trailing zeros, no
\* decimal point for a whole number
FmtF32(a) ==
    CASE a.k = "nan" -> "NaN"
      [] a.k = "inf" -> "inf"
      [] a.k = "ninf" -> "-inf"
      [] OTHER ->
           LET m == IF a.v < 0 THEN -a.v ELSE a.v
               r == m % 100
               frac == IF r = 0 THEN ""
                       ELSE IF r % 10 = 0 THEN "." \o ToString(r \div 10)
                       ELSE IF r < 10 THEN ".0" \o ToString(r)
                       ELSE "." \o ToString(r)
           IN (IF a.v < 0 THEN "-" ELSE "") \o ToString(m \div 100) \o frac

----------------------------------------------------------------------------
(* Text *)

NL == "\n"

\* the char U+0000
NUL == "\\0"

\* the backslash char (one atom)
BSL == "[backslash]"

\* the backtick char
BTK == "[backtick]"

Empty == << >>

Range(s) == {s[i] : i \in 1..Len(s)}

\* the number of occurrences of atom a in s
Count(s, a) == Cardinality({i \in 1..Len(s) : s[i] = a})

\* t occurs in s as a contiguous run of atoms
IsInfix(t, s) ==
    \E i \in 0..(Len(s) - Len(t)) : \A j \in 1..Len(t) : s[i + j] = t[j]

RECURSIVE escape_code(_)
\* teloxide::utils::markdown::escape_code: a backslash before every backslash and backtick
escape_code(s) ==
    IF s = Empty THEN Empty
    ELSE (IF Head(s) \in {BSL, BTK} THEN <<BSL, Head(s)>> ELSE <<Head(s)>>)
         \o escape_code(Tail(s))

\* teloxide::utils::markdown::code_block: the escaped code between two fence
\* lines of three backticks
code_block(s) == <<BTK, BTK, BTK, NL>> \o escape_code(s) \o <<NL, BTK, BTK, BTK>>

----------------------------------------------------------------------------
(* Result<T> *)

Ok(x) == [ok |-> TRUE, val |-> x, err |-> Empty]

Err(e) == [ok |-> FALSE, val |-> Empty, err |-> e]

\* what the Display of anyhow::Error prints for the errors current_price can return
FeedErrors ==
    { <<"error sending request">>,
      <<"error decoding response body: missing field ", BTK, "data", BTK>>,
      <<"invalid float literal">> }

\* the f32 values a feed can return
Prices == {Num(n) : n \in (-1)..MaxPrice} \cup {NaN, PosInf, NegInf}

\* PriceFeed::current_price: the upstream services are the environment; the
\* call ends in an f32 or in an error
FeedOutcomes ==
    {[ok |-> TRUE, price |-> p, err |-> Empty] : p \in Prices}
    \cup {[ok |-> FALSE, price |-> Zero, err |-> e] : e \in FeedErrors}

----------------------------------------------------------------------------
(* Token *)

\* alert_thresold values, in hundredths of a percent
Thresholds == {2500, 3000, 3333, 5000, 10000}

TokenNames == <<"BGS", "ILA", "WOO", "SPARTA">>

Token(n, b, t) == [name |-> n, buy_price |-> Num(b), alert_thresold |-> Num(t)]

AllTokens == {Token(TokenNames[1], b, t) : b \in 0..MaxBuy, t \in Thresholds}

\* diff_pct without the guard on buy_price: the division is always made, and
\* x / 0.0 is inf, -inf or NaN
Token_diff_pct_unguarded(t, feed) ==
    IF ~feed.ok THEN Err(feed.err)
    ELSE LET current_price == feed.price
             sign == IF FGt(current_price, t.buy_price) THEN "+" ELSE NUL
             pct == IF FGt(t.buy_price, Zero)
                    THEN PctOf(current_price, t.buy_price)
                    ELSE IF FGt(current_price, Zero) THEN PosInf
                    ELSE IF FLt(current_price, Zero) THEN NegInf
                    ELSE NaN
         IN Ok([current_price |-> current_price,
                pct |-> pct,
                pct_txt |-> <<sign, FmtF32(pct), "%">>])

\* the Ok value of diff_pct: (current_price, pct, pct_txt)
Token_diff_pct(t, feed) ==
    IF ~feed.ok THEN Err(feed.err)
    ELSE LET current_price == feed.price
             sign == IF FGt(current_price, t.buy_price) THEN "+" ELSE NUL
             pct == IF FGt(t.buy_price, Zero)
                    THEN PctOf(current_price, t.buy_price)
                    ELSE Zero
         IN Ok([current_price |-> current_price,
                pct |-> pct,
                pct_txt |-> <<sign, FmtF32(pct), "%">>])

Token_report_string(t, current_price, pct_txt) ==
    <<"name: ", t.name, ", buy_price: ", FmtF32(t.buy_price),
      ", current_price: ", FmtF32(current_price), ", diff: ">> \o pct_txt

Token_report(t, feed) ==
    LET d == Token_diff_pct(t, feed)
    IN IF ~d.ok THEN Err(d.err)
       ELSE Ok(Token_report_string(t, d.val.current_price, d.val.pct_txt))

\* check with pct <= alert_thresold in the first test: the upper boundary is
\* suppressed
Token_check_le(t, feed) ==
    LET d == Token_diff_pct(t, feed)
    IN IF ~d.ok THEN Err(d.err)
       ELSE IF FGt(d.val.pct, Zero) /\ FLe(d.val.pct, t.alert_thresold)
            THEN Ok(Empty)
       ELSE IF FLe(d.val.pct, Zero) /\ FGt(d.val.pct, FNeg(t.alert_thresold))
            THEN Ok(Empty)
       ELSE Ok(Token_report_string(t, d.val.current_price, d.val.pct_txt))

\* check with pct < 0.0 in the second test: a deviation of 0 is reported
Token_check_lt0(t, feed) ==
    LET d == Token_diff_pct(t, feed)
    IN IF ~d.ok THEN Err(d.err)
       ELSE IF FGt(d.val.pct, Zero) /\ FLt(d.val.pct, t.alert_thresold)
            THEN Ok(Empty)
       ELSE IF FLt(d.val.pct, Zero) /\ FGt(d.val.pct, FNeg(t.alert_thresold))
            THEN Ok(Empty)
       ELSE Ok(Token_report_string(t, d.val.current_price, d.val.pct_txt))

Token_check(t, feed) ==
    LET d == Token_diff_pct(t, feed)
    IN IF ~d.ok THEN Err(d.err)
       ELSE IF FGt(d.val.pct, Zero) /\ FLt(d.val.pct, t.alert_thresold)
            THEN Ok(Empty)
       ELSE IF FLe(d.val.pct, Zero) /\ FGt(d.val.pct, FNeg(t.alert_thresold))
            THEN Ok(Empty)
       ELSE Ok(Token_report_string(t, d.val.current_price, d.val.pct_txt))

----------------------------------------------------------------------------
(* Reporter *)

\* format!("fail to diff pct for token: {}, got error: {}", token.name, err)
ErrorLine(t, err) ==
    <<"fail to diff pct for token: ", t.name, ", got error: ">> \o err

\* report pushing the newline in the Ok arm only
Reporter_report_step_nl(r, t, res) ==
    IF res.ok THEN (r \o res.val) \o <<NL>> ELSE r \o ErrorLine(t, res.err)

\* one iteration of the for loop of Reporter::report: ret after the token
Reporter_report_step(r, t, res) ==
    (IF res.ok THEN r \o res.val ELSE r \o ErrorLine(t, res.err)) \o <<NL>>

\* the value Reporter::report returns
Reporter_report_return(r) == Ok(r)

\* one iteration of the for loop of Reporter::check: md after the token
Reporter_check_step(m, t, res) ==
    IF res.ok
    THEN IF res.val # Empty THEN (m \o res.val) \o <<NL>> ELSE m
    ELSE m \o (ErrorLine(t, res.err) \o <<NL>>)

\* check without the test md == "": the header and the block are always built
Reporter_check_return_always(m) ==
    Ok(<<"**ALERT**">> \o <<NL>> \o code_block(m))

\* what Reporter::check returns once the loop is over (always Ok)
Reporter_check_return(m) ==
    IF m = Empty THEN Ok(Empty)
    ELSE Ok(<<"**ALERT**">> \o <<NL>> \o code_block(m))

\* the token records the Reporter is built from: the BGS and SPARTA entries
\* of run() and one with a threshold the prices below can hit exactly
WatchTokens == {<<3, 3000>>, <<0, 3000>>, <<2, 5000>>}

\* Reporter.tokens: the i-th token carries the i-th name of run()
Configs ==
    UNION {
      {[i \in 1..n |-> Token(TokenNames[i], c[i][1], c[i][2])] :
          c \in [1..n -> WatchTokens]} : n \in 1..MaxTokens }

\* the feed outcomes of a check cycle
WatchOutcomes ==
    {f \in FeedOutcomes :
        \/ f.ok /\ f.price \in {Num(2), Num(3), NaN}
        \/ ~f.ok /\ Len(f.err) > 1}

----------------------------------------------------------------------------
(* Initial values *)

NoCall ==
    [op |-> "none", feed |-> [ok |-> FALSE, price |-> Zero, err |-> Empty],
     res |-> Err(Empty)]

InitToken ==
    /\ tok = Token(TokenNames[1], 0, 3000)
    /\ call = NoCall

InitWatch ==
    /\ wpc = "select"
    /\ timerReady = TRUE      \* the first tick of an interval completes at once
    /\ chan = "open"
    /\ ci = 1
    /\ md = Empty
    /\ evals = << >>
    /\ txt = Empty
    /\ sends = 0
    /\ lastSend = "none"
    /\ lateTick = FALSE

InitCmd ==
    /\ cpc = "idle"
    /\ ri = 1
    /\ ret = Empty
    /\ revals = << >>
    /\ rres = Ok(Empty)
    /\ answer = Empty

----------------------------------------------------------------------------
(* Token methods called on their own *)

Call(op, f, res) == call' = [op |-> op, feed |-> f, res |-> res]

CallDiffPct ==
    \E f \in FeedOutcomes :
        /\ Call("diff_pct", f, Token_diff_pct(tok, f))
        /\ UNCHANGED <<tokens, tok, watchVars, cmdVars>>

CallReport ==
    \E f \in FeedOutcomes :
        /\ Call("report", f, Token_report(tok, f))
        /\ UNCHANGED <<tokens, tok, watchVars, cmdVars>>

CallCheck ==
    \E f \in FeedOutcomes :
        /\ Call("check", f, Token_check(tok, f))
        /\ UNCHANGED <<tokens, tok, watchVars, cmdVars>>

TokenInit ==
    /\ tokens = << >>
    /\ tok \in AllTokens
    /\ call = NoCall
    /\ InitWatch
    /\ InitCmd

TokenNext == CallDiffPct \/ CallReport \/ CallCheck

TokenSpec == TokenInit /\ [][TokenNext]_vars

----------------------------------------------------------------------------
(* Reporter::watch, with Reporter::check run token by token *)

\* a tick that is ready at every select (an interval built inside the loop)
TickReady_always == TRUE

\* interval.tick() is ready: the period has elapsed since the tick before
TickReady == timerReady

\* the oneshot receiver is ready: the message was sent
RecvReady == chan = "sent"

\* the period of the interval elapses (also while a check or a send is in
\* flight: the missed tick is then ready at the next select)
TimerFire ==
    /\ wpc # "stopped"
    /\ ~timerReady
    /\ timerReady' = TRUE
    /\ UNCHANGED <<tokens, tokVars, cmdVars, wpc, chan, ci, md, evals, txt,
                   sends, lastSend, lateTick>>

\* run(): send.send("shutdown")
SendCancel ==
    /\ chan = "open"
    /\ chan' = "sent"
    /\ UNCHANGED <<tokens, tokVars, cmdVars, wpc, timerReady, ci, md, evals,
                   txt, sends, lastSend, lateTick>>

\* select! services the tick branch; self.check() starts
SelectTick ==
    /\ wpc = "select"
    /\ TickReady
    /\ timerReady' = FALSE
    /\ wpc' = "check"
    /\ ci' = 1
    /\ md' = Empty
    /\ evals' = << >>
    /\ txt' = Empty
    /\ sends' = 0
    /\ lateTick' = (lateTick \/ chan = "sent")
    /\ UNCHANGED <<tokens, tokVars, cmdVars, chan, lastSend>>

\* the receiver branch without its break
AfterCancel_continue == "select"

\* where the loop goes from the receiver branch: break
AfterCancel == "stopped"

\* select! services the receiver branch: println!, break
SelectCancel ==
    /\ wpc = "select"
    /\ RecvReady
    /\ chan' = "taken"
    /\ wpc' = AfterCancel
    /\ UNCHANGED <<tokens, tokVars, cmdVars, timerReady, ci, md, evals, txt,
                   sends, lastSend, lateTick>>

\* a loop that a failing token ends (token.check().await? in the loop)
NextIndex_break(i, res) == IF res.ok THEN i + 1 ELSE Len(tokens) + 1

\* the for loop of Reporter::check goes on to the next token after Ok and Err
NextIndex(i, res) == i + 1

\* one iteration of the for loop of Reporter::check
CheckToken ==
    /\ wpc = "check"
    /\ ci <= Len(tokens)
    /\ \E f \in WatchOutcomes :
          LET res == Token_check(tokens[ci], f)
          IN /\ md' = Reporter_check_step(md, tokens[ci], res)
             /\ evals' = Append(evals, [feed |-> f, res |-> res])
             /\ ci' = NextIndex(ci, res)
    /\ UNCHANGED <<tokens, tokVars, cmdVars, wpc, timerReady, chan, txt, sends,
                   lastSend, lateTick>>

\* Reporter::check returns; watch unwraps the result
CheckReturn ==
    /\ wpc = "check"
    /\ ci > Len(tokens)
    /\ LET r == Reporter_check_return(md)
       IN IF r.ok THEN txt' = r.val /\ wpc' = "checked"
                  ELSE txt' = txt /\ wpc' = "panicked"
    /\ UNCHANGED <<tokens, tokVars, cmdVars, timerReady, chan, ci, md, evals,
                   sends, lastSend, lateTick>>

\* if txt == "" { continue; } else bot.send_message(chat_id, &txt) is issued
AfterCheck ==
    /\ wpc = "checked"
    /\ IF txt = Empty
       THEN wpc' = "select" /\ sends' = sends
       ELSE wpc' = "send" /\ sends' = sends + 1
    /\ UNCHANGED <<tokens, tokVars, cmdVars, timerReady, chan, ci, md, evals,
                   txt, lastSend, lateTick>>

\* a failed send that ends the loop
AfterSend_fatal(o) == IF o = "err" THEN "stopped" ELSE "select"

\* where the loop goes once send_message has completed with outcome o
AfterSend(o) == "select"

\* send_message completes: Ok(_) => {}, Err(err) => println!
SendDone ==
    /\ wpc = "send"
    /\ \E o \in {"ok", "err"} :
          /\ lastSend' = o
          /\ wpc' = AfterSend(o)
    /\ UNCHANGED <<tokens, tokVars, cmdVars, timerReady, chan, ci, md, evals,
                   txt, sends, lateTick>>

Init ==
    /\ tokens \in Configs
    /\ InitToken
    /\ InitWatch
    /\ InitCmd

Next ==
    \/ TimerFire
    \/ SendCancel
    \/ SelectTick
    \/ SelectCancel
    \/ CheckToken
    \/ CheckReturn
    \/ AfterCheck
    \/ SendDone

Spec == Init /\ [][Next]_vars

\* The in-flight check and send complete (the assumption under which
\* termination is stated), and select! polls its branches in random order, so a receiver that
\* is ready at select points again and again is serviced at one of them.
FairSpec ==
    /\ Spec
    /\ WF_vars(CheckToken)
    /\ WF_vars(CheckReturn)
    /\ WF_vars(AfterCheck)
    /\ WF_vars(SendDone)
    /\ SF_vars(SelectCancel)

----------------------------------------------------------------------------
(* Reporter::cmd, with Reporter::report run token by token *)

\* Command::P arrives; self.report() starts
CmdReceive ==
    /\ cpc \in {"idle", "answered", "failed"}
    /\ cpc' = "report"
    /\ ri' = 1
    /\ ret' = Empty
    /\ revals' = << >>
    /\ rres' = Ok(Empty)
    /\ answer' = Empty
    /\ UNCHANGED <<tokens, tokVars, watchVars>>

\* one iteration of the for loop of Reporter::report
ReportToken ==
    /\ cpc = "report"
    /\ ri <= Len(tokens)
    /\ \E f \in FeedOutcomes :
          /\ ret' = Reporter_report_step(ret, tokens[ri], Token_report(tokens[ri], f))
          /\ revals' = Append(revals, f)
    /\ ri' = ri + 1
    /\ UNCHANGED <<tokens, tokVars, watchVars, cpc, rres, answer>>

\* Reporter::report returns; cmd picks the text to answer with
ReportReturn ==
    /\ cpc = "report"
    /\ ri > Len(tokens)
    /\ rres' = Reporter_report_return(ret)
    /\ answer' = IF rres'.ok THEN code_block(rres'.val)
                 ELSE code_block(<<"fail to report: ">> \o rres'.err)
    /\ cpc' = "answer"
    /\ UNCHANGED <<tokens, tokVars, watchVars, ri, ret, revals>>

\* cx.answer(..).await? completes
CmdAnswer ==
    /\ cpc = "answer"
    /\ cpc' \in {"answered", "failed"}
    /\ UNCHANGED <<tokens, tokVars, watchVars, ri, ret, revals, rres, answer>>

CmdInit ==
    /\ tokens \in Configs
    /\ InitToken
    /\ InitWatch
    /\ InitCmd

CmdNext == CmdReceive \/ ReportToken \/ ReportReturn \/ CmdAnswer

CmdSpec == CmdInit /\ [][CmdNext]_vars

----------------------------------------------------------------------------
(* Properties *)

\* the pct of the diff_pct made by the recorded call
CallPct == Token_diff_pct(tok, call.feed).val.pct

\* C1: for a token with threshold T > 0 and a computed deviation pct,
\* Token.check returns "" exactly when -T < pct < T, and returns the text
\* Token.report returns when pct = T, pct = -T, pct > T or pct < -T.
C1_CheckThreshold ==
    (call.op = "check" /\ call.feed.ok /\ FGt(tok.alert_thresold, Zero)) =>
        LET T == tok.alert_thresold
            inside == FLt(FNeg(T), CallPct) /\ FLt(CallPct, T)
            alerting == \/ CallPct = T
                        \/ CallPct = FNeg(T)
                        \/ FGt(CallPct, T)
                        \/ FLt(CallPct, FNeg(T))
        IN /\ call.res.ok
           /\ (call.res.val = Empty) <=> inside
           /\ alerting => call.res.val = Token_report(tok, call.feed).val

\* a check whose deviation is exactly the threshold has returned the report line
C1_Witness ==
    /\ call.op = "check"
    /\ call.feed.ok
    /\ CallPct = tok.alert_thresold
    /\ call.res.val # Empty

\* the line Reporter.report owes token i, from the outcome of its feed call
ReportLineOf(i) ==
    IF revals[i].ok
    THEN Token_report(tokens[i], revals[i]).val
    ELSE <<"fail to diff pct for token: ", tokens[i].name, ", got error: ">>
         \o revals[i].err

RECURSIVE ReportLines(_)
\* the lines of tokens 1..n, each followed by a newline
ReportLines(n) ==
    IF n = 0 THEN Empty ELSE (ReportLines(n - 1) \o ReportLineOf(n)) \o <<NL>>

\* C2: Reporter.report never fails, and its output is one newline-terminated
\* line per configured token, in configuration order: the error line of a
\* token whose feed call failed, the report line of a token whose call succeeded.
C2_ReportOneLinePerToken ==
    /\ rres.ok
    /\ cpc = "report" => ret = ReportLines(ri - 1)
    /\ cpc \in {"answer", "answered", "failed"} =>
          /\ rres.val = ReportLines(Len(tokens))
          /\ Count(rres.val, NL) = Len(tokens)

\* a report over two tokens, the first failing and the second succeeding
C2_Witness ==
    /\ cpc = "answered"
    /\ Len(tokens) = 2
    /\ ~revals[1].ok
    /\ revals[2].ok

\* token i was checked without failure and without alert
Quiet(i) == evals[i].res.ok /\ evals[i].res.val = Empty

\* what token i contributes to a check cycle: nothing, its alert line or its
\* error line
CheckLineOf(i) ==
    IF ~evals[i].feed.ok
    THEN <<"fail to diff pct for token: ", tokens[i].name, ", got error: ">>
         \o evals[i].feed.err \o <<NL>>
    ELSE IF evals[i].res.val = Empty THEN Empty
    ELSE evals[i].res.val \o <<NL>>

RECURSIVE CheckLines(_)
CheckLines(n) == IF n = 0 THEN Empty ELSE CheckLines(n - 1) \o CheckLineOf(n)

\* C3: Reporter.check returns "" if and only if every token was checked
\* without failure and without alert; otherwise it returns a text whose first
\* line is **ALERT**, followed by the collected lines.
C3_CheckEmptyIffQuiet ==
    wpc = "checked" =>
        LET quiet == \A i \in 1..Len(tokens) : Quiet(i)
        IN /\ Len(evals) = Len(tokens)
           /\ (txt = Empty) <=> quiet
           /\ ~quiet =>
                 /\ Len(txt) > 2
                 /\ SubSeq(txt, 1, 2) = <<"**ALERT**", NL>>
                 /\ IsInfix(escape_code(CheckLines(Len(tokens))),
                            SubSeq(txt, 3, Len(txt)))

\* a cycle over two tokens, none alerting or failing, has returned ""
C3_Witness ==
    /\ wpc = "checked"
    /\ Len(tokens) = 2
    /\ txt = Empty
    /\ evals[1].feed.price # evals[2].feed.price

\* C4: in one check cycle a failing token does not stop the cycle: every
\* token is evaluated, every failing token has its error line in the result,
\* and every alert of another token is in the result.
C4_FailureIsolated ==
    /\ wpc = "check" => Len(evals) = ci - 1 /\ ci <= Len(tokens) + 1
    /\ wpc = "checked" =>
          /\ Len(evals) = Len(tokens)
          /\ \A i \in 1..Len(tokens) :
                /\ evals[i].res.ok <=> evals[i].feed.ok
                /\ ~evals[i].feed.ok =>
                      IsInfix(escape_code(ErrorLine(tokens[i], evals[i].feed.err)
                                          \o <<NL>>), txt)
                /\ (evals[i].res.ok /\ evals[i].res.val # Empty) =>
                      IsInfix(escape_code(evals[i].res.val \o <<NL>>), txt)

\* a cycle whose first token failed and whose second token alerted
C4_Witness ==
    /\ wpc = "checked"
    /\ Len(tokens) = 2
    /\ ~evals[1].feed.ok
    /\ evals[2].res.ok
    /\ evals[2].res.val # Empty

\* C5 as stated: once the signal is sent no check cycle is started, also when
\* the timer is ready at the same select point.
C5_CancelAlwaysWins == ~lateTick

\* C5 amended: once the signal is sent, a select point at which the timer is
\* not ready services the cancellation branch (the loop leaves the select for
\* Stopped only); a check cycle starts after the signal only at a select point
\* at which the timer is ready as well.
C5_CancelWinsUnlessTickReady ==
    [][(wpc = "select" /\ chan = "sent" /\ ~timerReady)
          => (wpc' \in {"select", "stopped"} /\ lateTick' = lateTick)]_vars

\* a tick was serviced after the signal, and the loop then stopped at a
\* select point where the timer was not ready
C5_Witness ==
    /\ wpc = "stopped"
    /\ lateTick
    /\ ~timerReady

\* C6: the text of diff_pct is '+', pct, '%' when the current price is above
\* the buy price, and otherwise pct, '%' with nothing in front of the number.
C6_SignOmitted ==
    (call.op = "diff_pct" /\ call.res.ok) =>
        call.res.val.pct_txt =
            IF FGt(call.feed.price, tok.buy_price)
            THEN <<"+", FmtF32(call.res.val.pct), "%">>
            ELSE <<FmtF32(call.res.val.pct), "%">>

\* C7: a tick whose check returned a non-empty text makes exactly one send
\* attempt, a tick whose check returned "" makes none, and a failed send is
\* not retried and does not end the loop: only the cancellation does.
C7_OneSendPerAlert ==
    /\ sends \in {0, 1}
    /\ wpc \in {"check", "checked"} => sends = 0
    /\ wpc = "send" => sends = 1 /\ txt # Empty
    /\ wpc \in {"select", "stopped"} => sends = (IF txt = Empty THEN 0 ELSE 1)
    /\ wpc \in {"select", "check", "checked", "send", "stopped"}
    /\ wpc = "stopped" => chan = "taken"

\* a later tick is being serviced after a send that failed
C7_Witness ==
    /\ wpc = "check"
    /\ lastSend = "err"
    /\ sends = 0

\* C8: once the signal is sent while the loop is Running the loop reaches
\* Stopped, and from Stopped on no check and no send is made.
C8_CancelStops ==
    /\ (chan = "sent" /\ wpc # "stopped") ~> (wpc = "stopped")
    /\ [][wpc = "stopped" =>
            (wpc' = "stopped"
             /\ UNCHANGED <<ci, md, evals, txt, sends, lastSend>>)]_vars

\* the loop stopped after a tick that sent an alert
C8_Witness ==
    /\ wpc = "stopped"
    /\ chan = "taken"
    /\ lastSend = "ok"

\* C9: with a buy price of 0 diff_pct returns pct = 0 for every current
\* price, and fails only when the feed call fails.
C9_ZeroBuyPrice ==
    (call.op = "diff_pct" /\ tok.buy_price = Zero) =>
        /\ call.res.ok <=> call.feed.ok
        /\ call.feed.ok => call.res.val.pct = Zero

\* diff_pct on a token with buy price 0 and a positive current price
C9_Witness ==
    /\ call.op = "diff_pct"
    /\ tok.buy_price = Zero
    /\ call.feed.ok
    /\ FGt(call.feed.price, Zero)
    /\ call.res.val.pct = Zero

\* C10: a token with buy price 0 and a positive threshold never alerts: its
\* check returns "" whenever the feed call succeeds, and its name is in the
\* collected lines and in the alert block only with a failed feed call, in
\* its error line.
C10_ZeroBuyNeverAlerts ==
    \A i \in 1..Len(evals) :
        (tokens[i].buy_price = Zero /\ FGt(tokens[i].alert_thresold, Zero)) =>
            /\ evals[i].feed.ok => evals[i].res = Ok(Empty)
            /\ tokens[i].name \in (Range(md) \cup Range(txt)) =>
                  /\ ~evals[i].feed.ok
                  /\ IsInfix(ErrorLine(tokens[i], evals[i].feed.err), md)

\* a cycle in which a token with buy price 0 saw a positive price next to a
\* token that alerted
C10_Witness ==
    /\ wpc = "checked"
    /\ txt # Empty
    /\ \E i \in 1..Len(evals) :
          /\ tokens[i].buy_price = Zero
          /\ evals[i].feed.ok
          /\ FGt(evals[i].feed.price, Zero)

====
